---------------------------- MODULE Spec2Model ----------------------------
(***************************************************************************)
(* A model of the invoice mass-upload modal (MassUploadModal: selection of *)
(* files, the extraction batch with its retries, review of the extracted   *)
(* invoices and their conversion into Purchase vouchers) and of the report *)
(* computations of ReportsPage (trial balance, stock summary, stock        *)
(* valuation, GSTR-1 classification).                                      *)
(*                                                                         *)
(* Numbers.  The program computes with JavaScript numbers.  The model      *)
(* computes with integers and is exact: a money amount of the modal is an  *)
(* integer count of 1/Unit of a currency unit, so that the percentage      *)
(* (/ 100) and the halving (/ 2) of handleSave and recalculateInvoiceData  *)
(* are exact integer divisions.  Rounding of IEEE doubles is not modelled. *)
(*                                                                         *)
(* Strings.  A string is a TLA+ string; toLowerCase and the Date parser    *)
(* are tables over the strings the model draws its inputs from.            *)
(***************************************************************************)
EXTENDS Integers, Sequences, FiniteSets, TLC

VARIABLES
    \* props of both components
    ledgers,            \* Ledger[]
    stockItems,         \* StockItem[]
    companyDetails,     \* CompanyDetails
    \* MassUploadModal
    files,              \* useState<MassUploadFile[]>
    saveOutcome,        \* what handleSave did, when it was the last handler to run:
                        \* none | threw | completed
    onCompleteArg,      \* the vouchers handed to onComplete
    isProcessing,       \* useState<boolean>
    run,                \* the call of startProcessing that is under way
    ext,                \* the call of extractInvoiceDataWithRetry that is under way
    \* ReportsPage
    vouchers,           \* Voucher[]
    reportType,         \* useState<ReportType>
    trialBalanceData,   \* useMemo
    stockSummaryData,   \* useMemo
    gstr1Data,          \* useMemo
    stockValuationData  \* useMemo

propVars   == <<ledgers, stockItems, companyDetails>>
modalVars  == <<files, saveOutcome, onCompleteArg>>
uploadVars == <<isProcessing, run, ext>>
reportVars == <<vouchers, reportType, trialBalanceData, stockSummaryData, gstr1Data,
                stockValuationData>>
vars       == <<propVars, modalVars, uploadVars, reportVars>>

---------------------------------------------------------------------------
(* Bounds and program constants *)

\* gstRate / 100
Percent == 100

\* stockItem?.gstRate || 18
SaveFallbackRate == 18

\* stockItem?.gstRate || 0
RecalcFallbackRate == 0

\* Money amounts of the modal count 1/Unit of a currency unit.
Unit == 2 * Percent

\* The longest lineItems list of an extracted invoice.
MaxItems == 2

\* The longest voucher list handed to ReportsPage.
MaxVouchers == 2

\* The longest FileList of one drop or one pick.
MaxSelect == 2

\* extractInvoiceDataWithRetry(file, maxRetries = 3, initialDelay = 1000)
maxRetries == 3
initialDelay == 1000

---------------------------------------------------------------------------
(* Helpers *)

SeqsUpTo(S, n) == UNION {[1..k -> S] : k \in 0..n}

\* String.prototype.toLowerCase, on the strings of the model.
toLowerCase(s) ==
    CASE s = "ACME"   -> "acme"
      [] s = "Acme"   -> "acme"
      [] s = "Shop"   -> "shop"
      [] s = "Depot"  -> "depot"
      [] s = "Ghost"  -> "ghost"
      [] s = "Cash"   -> "cash"
      [] s = "Bank"   -> "bank"
      [] s = "KA"     -> "ka"
      [] s = "TN"     -> "tn"
      [] s = "Widget" -> "widget"
      [] s = "WIDGET" -> "widget"
      [] s = "Gadget" -> "gadget"
      [] s = "Bolt"   -> "bolt"
      [] s = "Nut"    -> "nut"
      [] OTHER        -> s

\* JavaScript's x || d on a number: 0 is falsy.
OrNumber(x, d) == IF x = 0 THEN d ELSE x

\* new Date(s): the time value, or NaN (valid = FALSE).  toISOString() of a
\* valid date is day \o "T" \o time.
DateParse(s) ==
    CASE s = "2024-03-05"           -> [valid |-> TRUE,  day |-> "2024-03-05", time |-> "00:00:00.000Z"]
      [] s = "2024-03-05T18:45:00Z" -> [valid |-> TRUE,  day |-> "2024-03-05", time |-> "18:45:00.000Z"]
      [] OTHER                      -> [valid |-> FALSE, day |-> "", time |-> ""]

\* new Date(): the current instant.
Now == [valid |-> TRUE, day |-> "2026-01-15", time |-> "09:30:00.000Z"]

\* Date.prototype.toISOString throws a RangeError on an invalid date.
toISOStringThrows(d) == ~d.valid

\* d.toISOString().split('T')[0]
isoDay(d) == d.day

---------------------------------------------------------------------------
(* Master data *)

MasterLedgers ==
    << [name |-> "Acme",  state |-> "ka", registrationType |-> "Registered",   gstin |-> "29AAA"],
       [name |-> "Depot", state |-> "",   registrationType |-> "Registered",   gstin |-> ""],
       [name |-> "Shop",  state |-> "TN", registrationType |-> "Unregistered", gstin |-> "33BBB"],
       [name |-> "Cash",  state |-> "",   registrationType |-> "Unregistered", gstin |-> ""] >>

MasterStockItems ==
    << [name |-> "Widget", gstRate |-> 12],
       [name |-> "Gadget", gstRate |-> 0],
       [name |-> "Bolt",   gstRate |-> 5] >>

CompanyStates == {"KA", ""}

---------------------------------------------------------------------------
(* MassUploadModal: the inputs of the review *)

\* "ACME" names the ledger Acme in another case; "" names no ledger.
SellerNames  == {"ACME", "Shop", "Depot", ""}

\* A date, a date with a time of day, and the empty string, which new Date
\* cannot parse.  (The row of a 'success' file renders
\* new Date(invoiceDate || Date.now()).toISOString(): a non-empty string that
\* does not parse throws there, before the invoice can be reviewed.)
InvoiceDates == {"2024-03-05", "2024-03-05T18:45:00Z", ""}
Descriptions == {"WIDGET", "Gadget", "Nut"}
Quantities   == {0, 2}
Rates        == {5 * Unit}

ExtractedLineItems ==
    [itemDescription : Descriptions, hsnCode : {""}, quantity : Quantities, rate : Rates]

\* The service's own subtotal, cgstAmount, sgstAmount and totalAmount.
ServiceTotals ==
    { [subtotal |-> 0, cgstAmount |-> 0, sgstAmount |-> 0, totalAmount |-> 0],
      [subtotal |-> 10 * Unit, cgstAmount |-> Unit, sgstAmount |-> Unit, totalAmount |-> 12 * Unit] }

ExtractedInvoices ==
    { [sellerName |-> s, invoiceNumber |-> "INV-7", invoiceDate |-> d,
       subtotal |-> t.subtotal, cgstAmount |-> t.cgstAmount, sgstAmount |-> t.sgstAmount,
       totalAmount |-> t.totalAmount, lineItems |-> li] :
         s \in SellerNames, d \in InvoiceDates, t \in ServiceTotals,
         li \in SeqsUpTo(ExtractedLineItems, MaxItems) }

ReviewedFile(data) ==
    [id |-> "a.pdf-1", name |-> "a.pdf", status |-> "success", extractedData |-> data]

---------------------------------------------------------------------------
(* MassUploadModal: inter-state determination and recalculation on edit *)

ledgerHits(name) ==
    {i \in 1..Len(ledgers) : toLowerCase(ledgers[i].name) = toLowerCase(name)}

\* ledgers.find(l => l.name.toLowerCase() === name.toLowerCase())?.state
partyLedgerState(name) ==
    IF ledgerHits(name) = {} THEN ""
    ELSE ledgers[CHOOSE i \in ledgerHits(name) : \A j \in ledgerHits(name) : i <= j].state

recalcIsInterState(sellerName) ==
    IF partyLedgerState(sellerName) # "" /\ companyDetails.state # ""
    THEN toLowerCase(partyLedgerState(sellerName)) # toLowerCase(companyDetails.state)
    ELSE FALSE

stockItemHits(description) ==
    {i \in 1..Len(stockItems) : toLowerCase(stockItems[i].name) = toLowerCase(description)}

\* stockItems.find(si => si.name.toLowerCase() === description.toLowerCase())?.gstRate,
\* undefined (falsy, like 0) when no stock item matches
stockItemGstRate(description) ==
    IF stockItemHits(description) = {} THEN 0
    ELSE stockItems[CHOOSE i \in stockItemHits(description) :
                        \A j \in stockItemHits(description) : i <= j].gstRate

RECURSIVE recalcFold(_, _, _)

\* the fallback rate of handleSave in the place of 0
recalcFold_saveFallback(lineItems, isInterState, acc) ==
    IF lineItems = <<>> THEN acc
    ELSE LET item          == Head(lineItems)
             gstRate       == OrNumber(stockItemGstRate(item.itemDescription), SaveFallbackRate)
             taxableAmount == item.quantity * item.rate
             tax           == (taxableAmount * gstRate) \div Percent
         IN  recalcFold(Tail(lineItems), isInterState,
                [subtotal   |-> acc.subtotal + taxableAmount,
                 cgstAmount |-> IF isInterState THEN acc.cgstAmount ELSE acc.cgstAmount + tax \div 2,
                 sgstAmount |-> IF isInterState THEN acc.sgstAmount ELSE acc.sgstAmount + tax \div 2])

recalcFold(lineItems, isInterState, acc) ==
    IF lineItems = <<>> THEN acc
    ELSE LET item          == Head(lineItems)
             gstRate       == OrNumber(stockItemGstRate(item.itemDescription), RecalcFallbackRate)
             taxableAmount == item.quantity * item.rate
             tax           == (taxableAmount * gstRate) \div Percent
         IN  recalcFold(Tail(lineItems), isInterState,
                [subtotal   |-> acc.subtotal + taxableAmount,
                 cgstAmount |-> IF isInterState THEN acc.cgstAmount ELSE acc.cgstAmount + tax \div 2,
                 sgstAmount |-> IF isInterState THEN acc.sgstAmount ELSE acc.sgstAmount + tax \div 2])

recalculateInvoiceData(data, sellerName) ==
    LET sums == recalcFold(data.lineItems, recalcIsInterState(sellerName),
                           [subtotal |-> 0, cgstAmount |-> 0, sgstAmount |-> 0])
        totalAmount == sums.subtotal + data.cgstAmount + data.sgstAmount
    IN  [data EXCEPT !.subtotal = sums.subtotal, !.cgstAmount = sums.cgstAmount,
                     !.sgstAmount = sums.sgstAmount, !.totalAmount = totalAmount]

---------------------------------------------------------------------------
(* MassUploadModal: handleSave *)

\* the states compared as written, not case-insensitively
saveIsInterState_caseSensitive(data) ==
    IF partyLedgerState(data.sellerName) # "" /\ companyDetails.state # ""
    THEN partyLedgerState(data.sellerName) # companyDetails.state
    ELSE FALSE

saveIsInterState(data) ==
    IF partyLedgerState(data.sellerName) # "" /\ companyDetails.state # ""
    THEN toLowerCase(partyLedgerState(data.sellerName)) # toLowerCase(companyDetails.state)
    ELSE FALSE

saveGstRate(item) == OrNumber(stockItemGstRate(item.itemDescription), SaveFallbackRate)

\* the intra-state split not halved: cgst carries the whole tax
saveVoucherItem_unsplit(item, isInterState) ==
    LET gstRate       == saveGstRate(item)
        taxableAmount == item.quantity * item.rate
        tax           == (taxableAmount * gstRate) \div Percent
    IN  [name |-> item.itemDescription, qty |-> item.quantity, rate |-> item.rate,
         taxableAmount |-> taxableAmount,
         cgstAmount  |-> IF isInterState THEN 0 ELSE tax,
         sgstAmount  |-> IF isInterState THEN 0 ELSE tax \div 2,
         igstAmount  |-> IF isInterState THEN tax ELSE 0,
         totalAmount |-> taxableAmount + tax]

saveVoucherItem(item, isInterState) ==
    LET gstRate       == saveGstRate(item)
        taxableAmount == item.quantity * item.rate
        tax           == (taxableAmount * gstRate) \div Percent
    IN  [name |-> item.itemDescription, qty |-> item.quantity, rate |-> item.rate,
         taxableAmount |-> taxableAmount,
         cgstAmount  |-> IF isInterState THEN 0 ELSE tax \div 2,
         sgstAmount  |-> IF isInterState THEN 0 ELSE tax \div 2,
         igstAmount  |-> IF isInterState THEN tax ELSE 0,
         totalAmount |-> taxableAmount + tax]

saveItems(data, isInterState) ==
    [i \in 1..Len(data.lineItems) |-> saveVoucherItem(data.lineItems[i], isInterState)]

RECURSIVE saveReduce(_, _)

\* the grand total accumulated from the taxable amounts alone
saveReduce_noTax(items, acc) ==
    IF items = <<>> THEN acc
    ELSE LET item == Head(items)
         IN  saveReduce(Tail(items),
                [totalTaxableAmount |-> acc.totalTaxableAmount + item.taxableAmount,
                 totalCgst  |-> acc.totalCgst + item.cgstAmount,
                 totalSgst  |-> acc.totalSgst + item.sgstAmount,
                 totalIgst  |-> acc.totalIgst + item.igstAmount,
                 grandTotal |-> acc.grandTotal + item.taxableAmount])

saveReduce(items, acc) ==
    IF items = <<>> THEN acc
    ELSE LET item == Head(items)
         IN  saveReduce(Tail(items),
                [totalTaxableAmount |-> acc.totalTaxableAmount + item.taxableAmount,
                 totalCgst  |-> acc.totalCgst + item.cgstAmount,
                 totalSgst  |-> acc.totalSgst + item.sgstAmount,
                 totalIgst  |-> acc.totalIgst + item.igstAmount,
                 grandTotal |-> acc.grandTotal + item.totalAmount])

\* new Date(data.invoiceDate).toISOString().split('T')[0] || new Date().toISOString().split('T')[0]
saveDateThrows(data) == toISOStringThrows(DateParse(data.invoiceDate))

saveDate(data) ==
    IF isoDay(DateParse(data.invoiceDate)) # ""
    THEN isoDay(DateParse(data.invoiceDate))
    ELSE isoDay(Now)

\* the voucher's taxable total taken from the extracted subtotal
saveVoucher_trustSubtotal(f) ==
    LET data         == f.extractedData
        isInterState == saveIsInterState(data)
        items        == saveItems(data, isInterState)
        t            == saveReduce(items, [totalTaxableAmount |-> 0, totalCgst |-> 0,
                                           totalSgst |-> 0, totalIgst |-> 0, grandTotal |-> 0])
    IN  [id |-> "", type |-> "Purchase", date |-> saveDate(data),
         invoiceNo |-> data.invoiceNumber, party |-> data.sellerName,
         isInterState |-> isInterState, items |-> items,
         totalTaxableAmount |-> data.subtotal, totalCgst |-> t.totalCgst,
         totalSgst |-> t.totalSgst, totalIgst |-> t.totalIgst, total |-> t.grandTotal,
         narration |-> <<"Auto-imported from ", f.name>>]

saveVoucher(f) ==
    LET data         == f.extractedData
        isInterState == saveIsInterState(data)
        items        == saveItems(data, isInterState)
        t            == saveReduce(items, [totalTaxableAmount |-> 0, totalCgst |-> 0,
                                           totalSgst |-> 0, totalIgst |-> 0, grandTotal |-> 0])
    IN  [id |-> "", type |-> "Purchase", date |-> saveDate(data),
         invoiceNo |-> data.invoiceNumber, party |-> data.sellerName,
         isInterState |-> isInterState, items |-> items,
         totalTaxableAmount |-> t.totalTaxableAmount, totalCgst |-> t.totalCgst,
         totalSgst |-> t.totalSgst, totalIgst |-> t.totalIgst, total |-> t.grandTotal,
         narration |-> <<"Auto-imported from ", f.name>>]

isSuccess(f) == f.status = "success"

successFiles == SelectSeq(files, isSuccess)

\* the Save button shown while a batch runs
saveButtonEnabled_whileProcessing ==
    /\ Len(files) > 0
    /\ \A i \in 1..Len(files) : files[i].status # "pending"
    /\ Len(SelectSeq(files, LAMBDA f : f.status = "success")) > 0

\* the footer: Save is shown when no batch runs and no file is pending, and is
\* enabled when successCount > 0
saveButtonEnabled ==
    /\ Len(files) > 0
    /\ ~isProcessing
    /\ \A i \in 1..Len(files) : files[i].status # "pending"
    /\ Len(successFiles) > 0

handleSave ==
    /\ saveOutcome # "completed"
    /\ saveButtonEnabled
    /\ IF \E i \in 1..Len(successFiles) : saveDateThrows(successFiles[i].extractedData)
       THEN /\ saveOutcome' = "threw"
            /\ onCompleteArg' = onCompleteArg
       ELSE /\ saveOutcome' = "completed"
            /\ onCompleteArg' = [i \in 1..Len(successFiles) |-> saveVoucher(successFiles[i])]
    /\ UNCHANGED <<files, propVars, uploadVars, reportVars>>

---------------------------------------------------------------------------
(* MassUploadModal: the edits of the review table *)

\* the text and the date input of a row: sellerName, invoiceNumber, invoiceDate
handleDataChange(fileId, field, value) ==
    /\ saveOutcome # "completed"
    /\ \E i \in 1..Len(files) : files[i].id = fileId /\ files[i].status = "success"
    /\ files' = [i \in 1..Len(files) |->
                    IF files[i].id = fileId /\ "extractedData" \in DOMAIN files[i]
                    THEN [files[i] EXCEPT !.extractedData = [@ EXCEPT ![field] = value]]
                    ELSE files[i]]
    /\ saveOutcome' = "none"
    /\ UNCHANGED <<onCompleteArg, propVars, uploadVars, reportVars>>

handleLineItemChange(fileId, itemIndex, field, value) ==
    /\ saveOutcome # "completed"
    /\ \E i \in 1..Len(files) :
          /\ files[i].id = fileId /\ files[i].status = "success"
          /\ itemIndex \in 1..Len(files[i].extractedData.lineItems)
    /\ files' = [i \in 1..Len(files) |->
                    IF files[i].id = fileId /\ "extractedData" \in DOMAIN files[i]
                    THEN LET data == files[i].extractedData
                             newLineItems == [data.lineItems EXCEPT ![itemIndex] = [@ EXCEPT ![field] = value]]
                         IN  [files[i] EXCEPT !.extractedData =
                                 recalculateInvoiceData([data EXCEPT !.lineItems = newLineItems],
                                                        data.sellerName)]
                    ELSE files[i]]
    /\ saveOutcome' = "none"
    /\ UNCHANGED <<onCompleteArg, propVars, uploadVars, reportVars>>

handleDeleteFile(fileId) ==
    /\ saveOutcome # "completed"
    /\ \E i \in 1..Len(files) : files[i].id = fileId
    /\ files' = SelectSeq(files, LAMBDA f : f.id # fileId)
    /\ saveOutcome' = "none"
    /\ UNCHANGED <<onCompleteArg, propVars, uploadVars, reportVars>>

---------------------------------------------------------------------------
(* MassUploadModal: the files the user selects *)

\* File objects: name and lastModified.
UploadFiles ==
    { [name |-> "a.pdf", lastModified |-> 1], [name |-> "b.pdf", lastModified |-> 1] }

\* `${file.name}-${file.lastModified}`
fileId(file) ==
    CASE file.name = "a.pdf" /\ file.lastModified = 1 -> "a.pdf-1"
      [] file.name = "b.pdf" /\ file.lastModified = 1 -> "b.pdf-1"

\* The FileList of a drop or of the file input: never empty (handleDrop and
\* handleFileChange pass it on only when its length is > 0); two of its files
\* may carry the same name and lastModified.
FileLists == SeqsUpTo(UploadFiles, MaxSelect) \ {<<>>}

\* What the extraction service answers: a parsed record, or an error.
UploadInvoices ==
    { [sellerName |-> "ACME", invoiceNumber |-> "INV-7", invoiceDate |-> "2024-03-05",
       subtotal |-> 10 * Unit, cgstAmount |-> Unit, sgstAmount |-> Unit, totalAmount |-> 12 * Unit,
       lineItems |-> << [itemDescription |-> "WIDGET", hsnCode |-> "", quantity |-> 2,
                         rate |-> 5 * Unit] >>],
      [sellerName |-> "Shop", invoiceNumber |-> "INV-8", invoiceDate |-> "",
       subtotal |-> 0, cgstAmount |-> 0, sgstAmount |-> 0, totalAmount |-> 0,
       lineItems |-> <<>>] }

\* error.message of a failed attempt: a rejected request, a response that
\* JSON.parse refuses
AttemptErrors == {"503 Service Unavailable", "Unexpected end of JSON input"}

RetriesExhaustedMessage == "Failed to extract invoice data after multiple retries."
UnknownErrorMessage     == "Unknown extraction error."

---------------------------------------------------------------------------
(* geminiService: extractInvoiceDataWithRetry *)

\* What the call has settled with: nothing yet, the parsed data it returned, the
\* Error it threw, or the FileReader's error event (no Error) it rejected with.
NotSettled == [kind |-> "none"]

\* No call under way.  calls counts the requests sent to the service and waits
\* lists the delays of the timers set, for the call under way.
ExtIdle ==
    [pc |-> "idle", name |-> "", attempt |-> 0, delay |-> 0, calls |-> 0, waits |-> <<>>,
     lastError |-> "", settled |-> NotSettled]

\* the call up to its first await: fileToBase64(file)
extractBegin(name) == [ExtIdle EXCEPT !.pc = "reading", !.name = name]

\* delay is not doubled
nextDelay_fixed(delay) == delay

\* delay *= 2
nextDelay(delay) == delay * 2

\* reader.onload: attempt = 0, delay = initialDelay, and the first request
readResolved ==
    /\ ext.pc = "reading"
    /\ ext' = [ext EXCEPT !.pc = "calling", !.attempt = 0, !.delay = initialDelay, !.calls = 1]
    /\ UNCHANGED <<files, isProcessing, run, saveOutcome, onCompleteArg, propVars, reportVars>>

\* reader.onerror: the await throws the event before the loop is entered
readRejected ==
    /\ ext.pc = "reading"
    /\ ext' = [ext EXCEPT !.pc = "threw", !.settled = [kind |-> "ProgressEvent"]]
    /\ UNCHANGED <<files, isProcessing, run, saveOutcome, onCompleteArg, propVars, reportVars>>

\* the request is answered and JSON.parse accepts the text: return parsedData
callReturns(data) ==
    /\ ext.pc = "calling"
    /\ ext' = [ext EXCEPT !.pc = "returned", !.settled = [kind |-> "data", data |-> data]]
    /\ UNCHANGED <<files, isProcessing, run, saveOutcome, onCompleteArg, propVars, reportVars>>

\* the catch block: the request or JSON.parse threw an error of this message
callFails(message) ==
    /\ ext.pc = "calling"
    /\ LET attempt == ext.attempt + 1
       IN  IF attempt >= maxRetries
           THEN ext' = [ext EXCEPT !.pc = "threw", !.attempt = attempt, !.lastError = message,
                                   !.settled = [kind |-> "Error",
                                                message |-> RetriesExhaustedMessage]]
           ELSE ext' = [ext EXCEPT !.pc = "waiting", !.attempt = attempt, !.lastError = message,
                                   !.waits = Append(@, ext.delay)]
    /\ UNCHANGED <<files, isProcessing, run, saveOutcome, onCompleteArg, propVars, reportVars>>

\* the timer of the backoff fires: delay *= 2, and the loop's next round
timerFires ==
    /\ ext.pc = "waiting"
    /\ IF ext.attempt < maxRetries
       THEN ext' = [ext EXCEPT !.pc = "calling", !.delay = nextDelay(@), !.calls = @ + 1]
       ELSE ext' = [ext EXCEPT !.pc = "threw", !.delay = nextDelay(@),
                               !.settled = [kind |-> "Error", message |-> "Should not be reached"]]
    /\ UNCHANGED <<files, isProcessing, run, saveOutcome, onCompleteArg, propVars, reportVars>>

---------------------------------------------------------------------------
(* MassUploadModal: handleFileSelect and startProcessing *)

\* No run of startProcessing under way.  A run keeps the files array of the
\* render it was started from (snapshot) and its place in it (i).
RunIdle == [pc |-> "idle", snapshot |-> <<>>, i |-> 0]

modalOpen == saveOutcome # "completed"

\* A handler of a user event runs only between tasks: not while a settled
\* promise still has its continuation to run.
eventLoopIdle == ext.pc \notin {"returned", "threw"}

\* the main area shows the dropzone only while the list is empty
dropzoneShown == Len(files) = 0

hasPendingFiles == \E i \in 1..Len(files) : files[i].status = "pending"

\* the footer's Start Processing button
startButtonShown == Len(files) > 0 /\ ~isProcessing /\ hasPendingFiles

handleFileSelect(selectedFiles) ==
    /\ modalOpen
    /\ dropzoneShown
    /\ LET fresh == SelectSeq(selectedFiles,
                        LAMBDA file : ~\E i \in 1..Len(files) : files[i].id = fileId(file))
           newFiles == [k \in 1..Len(fresh) |->
                           [id |-> fileId(fresh[k]), name |-> fresh[k].name, status |-> "pending"]]
       IN  files' = files \o newFiles
    /\ saveOutcome' = "none"
    /\ UNCHANGED <<onCompleteArg, propVars, uploadVars, reportVars>>

\* setFiles(prev => prev.map(f => f.id === id ? { ...f, ...fields } : f))
setFilesById(fs, id, fields) ==
    [k \in 1..Len(fs) |-> IF fs[k].id = id THEN fields @@ fs[k] ELSE fs[k]]

\* the loop left after its first await
loopFrom_firstOnly(fs, snapshot, i) ==
    LET pending == {k \in i..Len(snapshot) : snapshot[k].status = "pending"}
    IN  IF pending = {} \/ i > 1
        THEN [files |-> fs, isProcessing |-> FALSE, run |-> RunIdle, ext |-> ExtIdle]
        ELSE LET k == CHOOSE k \in pending : \A j \in pending : k <= j
             IN  [files |-> setFilesById(fs, snapshot[k].id, [status |-> "processing"]),
                  isProcessing |-> TRUE,
                  run |-> [pc |-> "awaiting", snapshot |-> snapshot, i |-> k],
                  ext |-> extractBegin(snapshot[k].name)]

\* the for loop from place i of the run's array up to its next await, or to its
\* end and setIsProcessing(false)
loopFrom(fs, snapshot, i) ==
    LET pending == {k \in i..Len(snapshot) : snapshot[k].status = "pending"}
    IN  IF pending = {}
        THEN [files |-> fs, isProcessing |-> FALSE, run |-> RunIdle, ext |-> ExtIdle]
        ELSE LET k == CHOOSE k \in pending : \A j \in pending : k <= j
             IN  [files |-> setFilesById(fs, snapshot[k].id, [status |-> "processing"]),
                  isProcessing |-> TRUE,
                  run |-> [pc |-> "awaiting", snapshot |-> snapshot, i |-> k],
                  ext |-> extractBegin(snapshot[k].name)]

\* what the loop reads of a file of its array
loopView(f) == [id |-> f.id, name |-> f.name, status |-> f.status]

startProcessing ==
    /\ modalOpen
    /\ startButtonShown
    /\ LET next == loopFrom(files, [k \in 1..Len(files) |-> loopView(files[k])], 1)
       IN  /\ files' = next.files
           /\ isProcessing' = next.isProcessing
           /\ run' = next.run
           /\ ext' = next.ext
    /\ saveOutcome' = "none"
    /\ UNCHANGED <<onCompleteArg, propVars, reportVars>>

\* error instanceof Error ? error.message : 'Unknown extraction error.'
caughtMessage(settled) ==
    IF settled.kind = "Error" THEN settled.message ELSE UnknownErrorMessage

\* startProcessing after its await: the try's second statement or the catch
\* block, then the loop's next rounds
resume ==
    /\ run.pc = "awaiting"
    /\ ext.pc \in {"returned", "threw"}
    /\ LET id    == run.snapshot[run.i].id
           fs    == IF ext.pc = "returned"
                    THEN setFilesById(files, id, [status |-> "success",
                                                  extractedData |-> ext.settled.data])
                    ELSE setFilesById(files, id, [status |-> "error",
                                                  error |-> caughtMessage(ext.settled)])
           next  == loopFrom(fs, run.snapshot, run.i + 1)
       IN  /\ files' = next.files
           /\ isProcessing' = next.isProcessing
           /\ run' = next.run
           /\ ext' = next.ext
    /\ UNCHANGED <<saveOutcome, onCompleteArg, propVars, reportVars>>

---------------------------------------------------------------------------
(* The review of one extracted invoice *)

NoReport == [status |-> "null"]

InitReview ==
    /\ ledgers = MasterLedgers
    /\ stockItems = MasterStockItems
    /\ \E s \in CompanyStates : companyDetails = [state |-> s]
    /\ \E data \in ExtractedInvoices : files = <<ReviewedFile(data)>>
    /\ saveOutcome = "none"
    /\ onCompleteArg = <<>>
    /\ isProcessing = FALSE
    /\ run = RunIdle
    /\ ext = ExtIdle
    /\ vouchers = <<>>
    /\ reportType = "DayBook"
    /\ trialBalanceData = NoReport
    /\ stockSummaryData = NoReport
    /\ gstr1Data = NoReport
    /\ stockValuationData = NoReport

NextReview ==
    \/ \E v \in SellerNames  : handleDataChange("a.pdf-1", "sellerName", v)
    \/ \E v \in InvoiceDates : handleDataChange("a.pdf-1", "invoiceDate", v)
    \/ \E i \in 1..MaxItems, v \in Descriptions : handleLineItemChange("a.pdf-1", i, "itemDescription", v)
    \/ \E i \in 1..MaxItems, v \in Quantities   : handleLineItemChange("a.pdf-1", i, "quantity", v)
    \/ \E i \in 1..MaxItems, v \in Rates        : handleLineItemChange("a.pdf-1", i, "rate", v)
    \/ handleDeleteFile("a.pdf-1")
    \/ handleSave

SpecReview == InitReview /\ [][NextReview]_vars

---------------------------------------------------------------------------
(* The modal from its opening: selection, the batch, review and save *)

Init ==
    /\ ledgers = MasterLedgers
    /\ stockItems = MasterStockItems
    /\ companyDetails = [state |-> "KA"]
    /\ files = <<>>
    /\ saveOutcome = "none"
    /\ onCompleteArg = <<>>
    /\ isProcessing = FALSE
    /\ run = RunIdle
    /\ ext = ExtIdle
    /\ vouchers = <<>>
    /\ reportType = "DayBook"
    /\ trialBalanceData = NoReport
    /\ stockSummaryData = NoReport
    /\ gstr1Data = NoReport
    /\ stockValuationData = NoReport

Next ==
    \/ eventLoopIdle /\ \E selectedFiles \in FileLists : handleFileSelect(selectedFiles)
    \/ eventLoopIdle /\ startProcessing
    \/ eventLoopIdle /\ \E file \in UploadFiles : handleDeleteFile(fileId(file))
    \/ eventLoopIdle /\ \E file \in UploadFiles : handleDataChange(fileId(file), "sellerName", "Depot")
    \/ eventLoopIdle /\ \E file \in UploadFiles : handleLineItemChange(fileId(file), 1, "quantity", 0)
    \/ eventLoopIdle /\ handleSave
    \/ readResolved
    \/ readRejected
    \/ \E data \in UploadInvoices : callReturns(data)
    \/ \E message \in AttemptErrors : callFails(message)
    \/ timerFires
    \/ resume

Spec == Init /\ [][Next]_vars

\* The FileReader settles, every request to the service is answered or fails,
\* every timer of the backoff fires, and the continuation of a settled await
\* runs.  Nothing is required of the user.
Fairness ==
    /\ WF_vars(readResolved \/ readRejected)
    /\ WF_vars((\E data \in UploadInvoices : callReturns(data))
                  \/ (\E message \in AttemptErrors : callFails(message)))
    /\ WF_vars(timerFires)
    /\ WF_vars(resume)

SpecFair == Init /\ [][Next]_vars /\ Fairness

---------------------------------------------------------------------------
(* ReportsPage: the vouchers it is given *)

ReportTypes ==
    {"DayBook", "LedgerReport", "TrialBalance", "StockSummary", "GSTR1",
     "StockValuation", "SalesTaxReport"}

\* Property names every object literal inherits from Object.prototype: for such
\* a name, obj[name] is truthy although obj has no entry of that name.
ObjectPrototypeNames == {"constructor"}

Item(name, qty) ==
    [name |-> name, qty |-> qty, rate |-> 5, taxableAmount |-> 5 * qty,
     cgstAmount |-> 0, sgstAmount |-> 0, igstAmount |-> 0, totalAmount |-> 5 * qty]

\* a line of qty units at the given rate
ItemAt(name, qty, rate) ==
    [name |-> name, qty |-> qty, rate |-> rate, taxableAmount |-> rate * qty,
     cgstAmount |-> 0, sgstAmount |-> 0, igstAmount |-> 0, totalAmount |-> rate * qty]

Trade(type, party, shape) ==
    [id |-> 0, type |-> type, date |-> "2024-03-05", invoiceNo |-> "INV-7", party |-> party,
     isInterState |-> shape.isInterState, items |-> shape.items,
     totalTaxableAmount |-> shape.totalTaxableAmount, totalCgst |-> shape.totalCgst,
     totalSgst |-> shape.totalSgst, totalIgst |-> shape.totalIgst, total |-> shape.total,
     narration |-> ""]

\* intra-state, total = taxable + cgst + sgst
ShapeIntra ==
    [isInterState |-> FALSE, items |-> <<Item("Widget", 2)>>,
     totalTaxableAmount |-> 10, totalCgst |-> 1, totalSgst |-> 1, totalIgst |-> 0, total |-> 12]

\* inter-state, total = taxable + igst
ShapeInter ==
    [isInterState |-> TRUE, items |-> <<Item("Widget", 1), Item("WIDGET", 3)>>,
     totalTaxableAmount |-> 20, totalCgst |-> 0, totalSgst |-> 0, totalIgst |-> 3, total |-> 23]

\* inter-state with all three tax totals set; total = taxable + igst
ShapeMixed ==
    [isInterState |-> TRUE, items |-> <<Item("Gadget", 1)>>,
     totalTaxableAmount |-> 5, totalCgst |-> 1, totalSgst |-> 2, totalIgst |-> 4, total |-> 9]

\* intra-state, two lines of one item at two rates; total = taxable + cgst + sgst
ShapeDear ==
    [isInterState |-> FALSE, items |-> <<ItemAt("Widget", 1, 8), Item("Widget", 2)>>,
     totalTaxableAmount |-> 18, totalCgst |-> 1, totalSgst |-> 1, totalIgst |-> 0, total |-> 20]

\* intra-state, the total unrelated to its parts
ShapeOff ==
    [isInterState |-> FALSE, items |-> <<>>,
     totalTaxableAmount |-> 5, totalCgst |-> 1, totalSgst |-> 2, totalIgst |-> 4, total |-> 99]

PartyAccount(type, party, account, amount) ==
    [id |-> 0, type |-> type, date |-> "2024-03-05", party |-> party, account |-> account,
     amount |-> amount, narration |-> ""]

Contra(fromAccount, toAccount, amount) ==
    [id |-> 0, type |-> "Contra", date |-> "2024-03-05", fromAccount |-> fromAccount,
     toAccount |-> toAccount, amount |-> amount, narration |-> ""]

Journal(entries) ==
    [id |-> 0, type |-> "Journal", date |-> "2024-03-05", entries |-> entries, narration |-> ""]

Entry(ledger, debit, credit) == [ledger |-> ledger, debit |-> debit, credit |-> credit]

VoucherInputs ==
    {Trade("Sales", "Acme", sh) : sh \in {ShapeIntra, ShapeInter, ShapeMixed, ShapeOff}}
    \cup {Trade("Sales", p, ShapeIntra) : p \in {"acme", "Depot", "Shop", "Ghost", ""}}
    \cup {Trade("Purchase", "Acme", sh) : sh \in {ShapeIntra, ShapeInter, ShapeMixed, ShapeOff}}
    \cup {Trade("Purchase", "", ShapeIntra), Trade("Purchase", "Ghost", ShapeInter),
          Trade("Purchase", "constructor", ShapeIntra), Trade("Purchase", "Acme", ShapeDear)}
    \cup {PartyAccount("Payment", "Acme", "Cash", 7), PartyAccount("Payment", "", "Cash", 7),
          PartyAccount("Payment", "Acme", "", 7), PartyAccount("Payment", "constructor", "Cash", 7),
          PartyAccount("Receipt", "Acme", "Cash", 7), PartyAccount("Receipt", "Ghost", "Bank", 3)}
    \cup {Contra("Cash", "Bank", 4), Contra("", "Bank", 4)}
    \cup {Journal(<<Entry("Acme", 6, 0), Entry("Cash", 0, 6)>>),
          Journal(<<Entry("Acme", 6, 0)>>),
          Journal(<<Entry("", 6, 0), Entry("Cash", 0, 6)>>)}

---------------------------------------------------------------------------
(* ReportsPage: trialBalanceData *)

\* balances: the entries of the object (bal), in insertion order (order), and
\* whether a statement has thrown (threw)
NoBalances == [bal |-> <<>>, order |-> <<>>, threw |-> FALSE]

\* balances[name] is truthy
hasBalance(b, name) == name \in DOMAIN b.bal \/ name \in ObjectPrototypeNames

ensureLedger(b, name) ==
    IF ~b.threw /\ name # "" /\ ~hasBalance(b, name)
    THEN [b EXCEPT !.bal = (name :> [debit |-> 0, credit |-> 0]) @@ b.bal,
                   !.order = Append(b.order, name)]
    ELSE b

\* balances[name].debit += amount, balances[name].credit += amount: a TypeError
\* when balances[name] is undefined; a write to the inherited object, which is
\* no entry of balances, when name is inherited
addDebit(b, name, amount) ==
    IF b.threw THEN b
    ELSE IF name \in DOMAIN b.bal THEN [b EXCEPT !.bal[name].debit = @ + amount]
    ELSE IF name \in ObjectPrototypeNames THEN b
    ELSE [b EXCEPT !.threw = TRUE]

addCredit(b, name, amount) ==
    IF b.threw THEN b
    ELSE IF name \in DOMAIN b.bal THEN [b EXCEPT !.bal[name].credit = @ + amount]
    ELSE IF name \in ObjectPrototypeNames THEN b
    ELSE [b EXCEPT !.threw = TRUE]

ensureTaxLedgers(b) == ensureLedger(ensureLedger(ensureLedger(b, "IGST"), "CGST"), "SGST")

\* the party credited by the taxable amount, not by the total
postPurchase_creditTaxable(b, v) ==
    LET b1 == ensureTaxLedgers(ensureLedger(ensureLedger(b, v.party), "Purchases"))
        b2 == addCredit(b1, v.party, v.totalTaxableAmount)
        b3 == addDebit(b2, "Purchases", v.totalTaxableAmount)
    IN  IF v.isInterState
        THEN addDebit(b3, "IGST", v.totalIgst)
        ELSE addDebit(addDebit(b3, "CGST", v.totalCgst), "SGST", v.totalSgst)

\* the party's ledger not ensured before it is posted to
postPurchase_noEnsure(b, v) ==
    LET b1 == ensureTaxLedgers(ensureLedger(b, "Purchases"))
        b2 == addCredit(b1, v.party, v.total)
        b3 == addDebit(b2, "Purchases", v.totalTaxableAmount)
    IN  IF v.isInterState
        THEN addDebit(b3, "IGST", v.totalIgst)
        ELSE addDebit(addDebit(b3, "CGST", v.totalCgst), "SGST", v.totalSgst)

postPurchase(b, v) ==
    LET b1 == ensureTaxLedgers(ensureLedger(ensureLedger(b, v.party), "Purchases"))
        b2 == addCredit(b1, v.party, v.total)
        b3 == addDebit(b2, "Purchases", v.totalTaxableAmount)
    IN  IF v.isInterState
        THEN addDebit(b3, "IGST", v.totalIgst)
        ELSE addDebit(addDebit(b3, "CGST", v.totalCgst), "SGST", v.totalSgst)

postSales(b, v) ==
    LET b1 == ensureTaxLedgers(ensureLedger(ensureLedger(b, v.party), "Sales"))
        b2 == addDebit(b1, v.party, v.total)
        b3 == addCredit(b2, "Sales", v.totalTaxableAmount)
    IN  IF v.isInterState
        THEN addCredit(b3, "IGST", v.totalIgst)
        ELSE addCredit(addCredit(b3, "CGST", v.totalCgst), "SGST", v.totalSgst)

postPayment(b, v) ==
    LET b1 == ensureLedger(ensureLedger(b, v.party), v.account)
    IN  addCredit(addDebit(b1, v.party, v.amount), v.account, v.amount)

postReceipt(b, v) ==
    LET b1 == ensureLedger(ensureLedger(b, v.party), v.account)
    IN  addDebit(addCredit(b1, v.party, v.amount), v.account, v.amount)

postContra(b, v) ==
    LET b1 == ensureLedger(ensureLedger(b, v.fromAccount), v.toAccount)
    IN  addDebit(addCredit(b1, v.fromAccount, v.amount), v.toAccount, v.amount)

RECURSIVE postJournal(_, _)
postJournal(b, entries) ==
    IF entries = <<>> THEN b
    ELSE LET e  == Head(entries)
             b1 == ensureLedger(b, e.ledger)
             b2 == IF e.ledger # ""
                   THEN addCredit(addDebit(b1, e.ledger, e.debit), e.ledger, e.credit)
                   ELSE b1
         IN  postJournal(b2, Tail(entries))

postVoucher(b, v) ==
    CASE v.type = "Purchase" -> postPurchase(b, v)
      [] v.type = "Sales"    -> postSales(b, v)
      [] v.type = "Payment"  -> postPayment(b, v)
      [] v.type = "Receipt"  -> postReceipt(b, v)
      [] v.type = "Contra"   -> postContra(b, v)
      [] v.type = "Journal"  -> postJournal(b, v.entries)
      [] OTHER               -> b

RECURSIVE ensureMaster(_, _)
ensureMaster(b, ls) ==
    IF ls = <<>> THEN b ELSE ensureMaster(ensureLedger(b, Head(ls).name), Tail(ls))

RECURSIVE postAll(_, _)
postAll(b, vs) ==
    IF vs = <<>> THEN b ELSE postAll(postVoucher(b, Head(vs)), Tail(vs))

\* the row of both sums, not netted
netRow_gross(ledger, debit, credit) ==
    [ledger |-> ledger, debit |-> debit, credit |-> credit]

netRow(ledger, debit, credit) ==
    IF debit > credit THEN [ledger |-> ledger, debit |-> debit - credit, credit |-> 0]
    ELSE IF credit > debit THEN [ledger |-> ledger, debit |-> 0, credit |-> credit - debit]
    ELSE [ledger |-> ledger, debit |-> 0, credit |-> 0]

netRows(b) ==
    SelectSeq([i \in 1..Len(b.order) |->
                  netRow(b.order[i], b.bal[b.order[i]].debit, b.bal[b.order[i]].credit)],
              LAMBDA item : item.debit > 0 \/ item.credit > 0)

RECURSIVE reduceTotals(_, _)
reduceTotals(rows, acc) ==
    IF rows = <<>> THEN acc
    ELSE reduceTotals(Tail(rows), [debit  |-> acc.debit + Head(rows).debit,
                                   credit |-> acc.credit + Head(rows).credit])

trialBalanceMemo(rt, vs, ls) ==
    IF rt # "TrialBalance" THEN NoReport
    ELSE LET b == postAll(ensureMaster(NoBalances, ls), vs)
         IN  IF b.threw THEN [status |-> "threw"]
             ELSE [status |-> "ok", result |-> netRows(b),
                   totals |-> reduceTotals(netRows(b), [debit |-> 0, credit |-> 0])]

---------------------------------------------------------------------------
(* ReportsPage: stockSummaryData *)

\* summary: its entries and their insertion order
RECURSIVE initSummary(_, _)
initSummary(sm, items) ==
    IF items = <<>> THEN sm
    ELSE LET name == Head(items).name
         IN  initSummary([sum   |-> (name :> [inward |-> 0, outward |-> 0]) @@ sm.sum,
                          order |-> IF name \in DOMAIN sm.sum THEN sm.order
                                    ELSE Append(sm.order, name)],
                         Tail(items))

\* if (summary[item.name]) summary[item.name].inward += item.qty
RECURSIVE addInward(_, _)
addInward(sm, items) ==
    IF items = <<>> THEN sm
    ELSE LET item == Head(items)
         IN  addInward(IF item.name \in DOMAIN sm.sum
                       THEN [sm EXCEPT !.sum[item.name].inward = @ + item.qty]
                       ELSE sm,
                       Tail(items))

RECURSIVE addOutward(_, _)
addOutward(sm, items) ==
    IF items = <<>> THEN sm
    ELSE LET item == Head(items)
         IN  addOutward(IF item.name \in DOMAIN sm.sum
                        THEN [sm EXCEPT !.sum[item.name].outward = @ + item.qty]
                        ELSE sm,
                        Tail(items))

RECURSIVE summarize(_, _)
summarize(sm, vs) ==
    IF vs = <<>> THEN sm
    ELSE LET v == Head(vs)
         IN  summarize(IF v.type = "Purchase" THEN addInward(sm, v.items)
                       ELSE IF v.type = "Sales" THEN addOutward(sm, v.items)
                       ELSE sm,
                       Tail(vs))

\* the closing balance clamped at 0
summaryRow_clamped(name, data) ==
    [name |-> name, inward |-> data.inward, outward |-> data.outward,
     closing |-> IF data.inward > data.outward THEN data.inward - data.outward ELSE 0]

summaryRow(name, data) ==
    [name |-> name, inward |-> data.inward, outward |-> data.outward,
     closing |-> data.inward - data.outward]

stockSummaryMemo(rt, vs, sis) ==
    IF rt # "StockSummary" THEN NoReport
    ELSE LET sm == summarize(initSummary([sum |-> <<>>, order |-> <<>>], sis), vs)
         IN  [status |-> "ok",
              rows |-> [i \in 1..Len(sm.order) |-> summaryRow(sm.order[i], sm.sum[sm.order[i]])]]

---------------------------------------------------------------------------
(* ReportsPage: stockValuationData *)

\* valuation: its entries and their insertion order
RECURSIVE initValuation(_, _)
initValuation(val, items) ==
    IF items = <<>> THEN val
    ELSE LET name == Head(items).name
         IN  initValuation([map   |-> (name :> [purchaseQty |-> 0, purchaseValue |-> 0,
                                                salesQty |-> 0]) @@ val.map,
                            order |-> IF name \in DOMAIN val.map THEN val.order
                                      ELSE Append(val.order, name)],
                           Tail(items))

\* if (valuation[item.name]) { purchaseQty += item.qty; purchaseValue += item.taxableAmount }
RECURSIVE addPurchased(_, _)
addPurchased(val, items) ==
    IF items = <<>> THEN val
    ELSE LET item == Head(items)
         IN  addPurchased(IF item.name \in DOMAIN val.map
                          THEN [val EXCEPT !.map[item.name].purchaseQty = @ + item.qty,
                                           !.map[item.name].purchaseValue = @ + item.taxableAmount]
                          ELSE val,
                          Tail(items))

RECURSIVE addSold(_, _)
addSold(val, items) ==
    IF items = <<>> THEN val
    ELSE LET item == Head(items)
         IN  addSold(IF item.name \in DOMAIN val.map
                     THEN [val EXCEPT !.map[item.name].salesQty = @ + item.qty]
                     ELSE val,
                     Tail(items))

RECURSIVE valuate(_, _)
valuate(val, vs) ==
    IF vs = <<>> THEN val
    ELSE LET v == Head(vs)
         IN  valuate(IF v.type = "Purchase" THEN addPurchased(val, v.items)
                     ELSE IF v.type = "Sales" THEN addSold(val, v.items)
                     ELSE val,
                     Tail(vs))

\* The quotient num / den, kept exact as the pair of its terms.
Quotient(num, den) == [num |-> num, den |-> den]

\* the average taken whatever the purchased quantity
valuationRow_unguarded(name, data) ==
    LET closingQty == data.purchaseQty - data.salesQty
        avgCost    == Quotient(data.purchaseValue, data.purchaseQty)
    IN  [name |-> name, closingQty |-> closingQty, avgCost |-> avgCost,
         value |-> Quotient(closingQty * avgCost.num, avgCost.den)]

valuationRow(name, data) ==
    LET closingQty == data.purchaseQty - data.salesQty
        avgCost    == IF data.purchaseQty > 0
                      THEN Quotient(data.purchaseValue, data.purchaseQty)
                      ELSE Quotient(0, 1)
    IN  [name |-> name, closingQty |-> closingQty, avgCost |-> avgCost,
         value |-> Quotient(closingQty * avgCost.num, avgCost.den)]

stockValuationMemo(rt, vs, sis) ==
    IF rt # "StockValuation" THEN NoReport
    ELSE LET val == valuate(initValuation([map |-> <<>>, order |-> <<>>], sis), vs)
         IN  [status |-> "ok",
              rows |-> [i \in 1..Len(val.order) |-> valuationRow(val.order[i], val.map[val.order[i]])]]

---------------------------------------------------------------------------
(* ReportsPage: ledgersByName and gstr1Data *)

\* the reduce over ledgers: a later ledger of the same name replaces an earlier one
ledgersByName(ls) ==
    [n \in {ls[i].name : i \in 1..Len(ls)} |->
        ls[CHOOSE i \in 1..Len(ls) : ls[i].name = n /\ \A j \in (i + 1)..Len(ls) : ls[j].name # n]]

\* the gstin not looked at
inB2b_noGstin(byName, v) ==
    /\ v.party \in DOMAIN byName
    /\ byName[v.party].registrationType = "Registered"

\* partyLedger?.registrationType === 'Registered' && partyLedger?.gstin
inB2b(byName, v) ==
    /\ v.party \in DOMAIN byName
    /\ byName[v.party].registrationType = "Registered"
    /\ byName[v.party].gstin # ""

\* !partyLedger || partyLedger.registrationType !== 'Registered' || !partyLedger.gstin
inB2c(byName, v) ==
    IF v.party \in DOMAIN byName
    THEN byName[v.party].registrationType # "Registered" \/ byName[v.party].gstin = ""
    ELSE TRUE

gstr1Memo(rt, vs, byName) ==
    IF rt # "GSTR1" THEN NoReport
    ELSE LET salesVouchers == SelectSeq(vs, LAMBDA v : v.type = "Sales")
         IN  [status |-> "ok",
              b2b |-> SelectSeq(salesVouchers, LAMBDA v : inB2b(byName, v)),
              b2c |-> SelectSeq(salesVouchers, LAMBDA v : inB2c(byName, v))]

---------------------------------------------------------------------------
(* ReportsPage: its renders *)

\* a render whose memo throws unmounts the page
pageCrashed == trialBalanceData.status = "threw"

render(rt, vs) ==
    /\ trialBalanceData' = trialBalanceMemo(rt, vs, ledgers)
    /\ stockSummaryData' = stockSummaryMemo(rt, vs, stockItems)
    /\ gstr1Data' = gstr1Memo(rt, vs, ledgersByName(ledgers))
    /\ stockValuationData' = stockValuationMemo(rt, vs, stockItems)

setReportType(rt) ==
    /\ ~pageCrashed
    /\ rt # reportType
    /\ reportType' = rt
    /\ render(rt, vouchers)
    /\ UNCHANGED <<vouchers, propVars, modalVars, uploadVars>>

\* the parent hands over a voucher list with one more voucher, its id assigned
\* by the store
vouchersChanged(v) ==
    /\ ~pageCrashed
    /\ Len(vouchers) < MaxVouchers
    /\ vouchers' = Append(vouchers, [v EXCEPT !.id = Len(vouchers) + 1])
    /\ render(reportType, vouchers')
    /\ UNCHANGED <<reportType, propVars, modalVars, uploadVars>>

InitReports ==
    /\ ledgers = MasterLedgers
    /\ stockItems = MasterStockItems
    /\ companyDetails = [state |-> "KA"]
    /\ files = <<>>
    /\ saveOutcome = "none"
    /\ onCompleteArg = <<>>
    /\ isProcessing = FALSE
    /\ run = RunIdle
    /\ ext = ExtIdle
    /\ vouchers = <<>>
    /\ reportType = "DayBook"
    /\ trialBalanceData = NoReport
    /\ stockSummaryData = NoReport
    /\ gstr1Data = NoReport
    /\ stockValuationData = NoReport

NextReports ==
    \/ \E rt \in ReportTypes : setReportType(rt)
    \/ \E v \in VoucherInputs : vouchersChanged(v)

SpecReports == InitReports /\ [][NextReports]_vars

---------------------------------------------------------------------------
(* The normalizer's claims, checked under SpecReview *)

saveCompleted == saveOutcome = "completed"

\* the extracted record voucher i of onComplete's argument was made from
sourceOf(i) == successFiles[i].extractedData

\* a sum over a sequence of records, stated apart from the code's reduce
RECURSIVE SumOver(_, _)
SumOver(items, field) ==
    IF items = <<>> THEN 0 ELSE Head(items)[field] + SumOver(Tail(items), field)

\* C3: handleSave never raises, whatever sellerName, lineItems and invoiceDate
\* the extracted record holds.
C3_SaveNeverThrows == saveOutcome # "threw"

\* C4: a call of handleSave yields vouchers, and each carries the calendar day
\* of its record's invoiceDate when that parses (time of day dropped) and the
\* current calendar day when it does not.
C4_DateOrToday ==
    saveOutcome # "none" =>
        /\ saveCompleted
        /\ \A i \in 1..Len(onCompleteArg) :
              onCompleteArg[i].date =
                 IF DateParse(sourceOf(i).invoiceDate).valid
                 THEN DateParse(sourceOf(i).invoiceDate).day
                 ELSE Now.day

\* the rate the claim names: the gstRate of the first stock item whose name
\* matches the description case-insensitively, 18 when none matches
claimedRate(description) ==
    IF \E i \in 1..Len(stockItems) : toLowerCase(stockItems[i].name) = toLowerCase(description)
    THEN stockItems[CHOOSE i \in 1..Len(stockItems) :
                       /\ toLowerCase(stockItems[i].name) = toLowerCase(description)
                       /\ \A j \in 1..(i - 1) : toLowerCase(stockItems[j].name) # toLowerCase(description)].gstRate
    ELSE 18

\* C5: the tax of each line of a saved voucher is its taxable amount at the
\* matched stock item's gstRate (zero tax at rate 0), and at 18 percent only
\* when no stock item matches.
C5_TaxAtMatchedRate ==
    saveCompleted =>
        \A i \in 1..Len(onCompleteArg) : \A k \in 1..Len(onCompleteArg[i].items) :
            LET it == onCompleteArg[i].items[k]
            IN  (it.totalAmount - it.taxableAmount) * Percent = it.taxableAmount * claimedRate(it.name)

\* C6 as stated: with an applied rate > 0, every line of an inter-state voucher
\* has igst > 0 and cgst = sgst = 0, and every line of an intra-state voucher
\* has cgst = sgst > 0, each half the tax, and igst = 0.
C6_ExclusiveAndPositive ==
    saveCompleted =>
        \A i \in 1..Len(onCompleteArg) : \A k \in 1..Len(onCompleteArg[i].items) :
            LET v  == onCompleteArg[i]
                it == v.items[k]
            IN  saveGstRate(sourceOf(i).lineItems[k]) > 0 =>
                  /\ v.isInterState  => it.igstAmount > 0 /\ it.cgstAmount = 0 /\ it.sgstAmount = 0
                  /\ ~v.isInterState => /\ it.cgstAmount = it.sgstAmount
                                        /\ it.cgstAmount > 0
                                        /\ 2 * it.cgstAmount = it.totalAmount - it.taxableAmount
                                        /\ it.igstAmount = 0

\* C6 as amended: the split is exclusive and symmetric on every line (inter-state:
\* cgst = sgst = 0 and igst is the tax; intra-state: igst = 0 and cgst = sgst,
\* each half the tax), and the taxed side is > 0 when the applied rate is > 0
\* and the line's taxable amount, quantity x rate, is > 0.
C6_ExclusiveSplit ==
    saveCompleted =>
        \A i \in 1..Len(onCompleteArg) : \A k \in 1..Len(onCompleteArg[i].items) :
            LET v   == onCompleteArg[i]
                it  == v.items[k]
                li  == sourceOf(i).lineItems[k]
                tax == it.totalAmount - it.taxableAmount
                taxed == saveGstRate(li) > 0 /\ li.quantity * li.rate > 0
            IN  /\ v.isInterState  => /\ it.cgstAmount = 0 /\ it.sgstAmount = 0
                                      /\ it.igstAmount = tax
                                      /\ taxed => it.igstAmount > 0
                /\ ~v.isInterState => /\ it.igstAmount = 0
                                      /\ it.cgstAmount = it.sgstAmount
                                      /\ 2 * it.cgstAmount = tax
                                      /\ taxed => it.cgstAmount > 0

\* an intra-state voucher with a taxed line and a line of taxable amount 0
C6_Witness ==
    /\ saveCompleted
    /\ ~onCompleteArg[1].isInterState
    /\ \E k \in 1..Len(onCompleteArg[1].items) : onCompleteArg[1].items[k].cgstAmount > 0
    /\ \E k \in 1..Len(onCompleteArg[1].items) : onCompleteArg[1].items[k].taxableAmount = 0

\* C7: the total of every saved voucher is totalTaxableAmount + totalCgst +
\* totalSgst + totalIgst, and each of the four is the sum of its field over
\* the voucher's items (all of them 0 when there is no item).
C7_TotalClosure ==
    saveCompleted =>
        \A i \in 1..Len(onCompleteArg) :
            LET v == onCompleteArg[i]
            IN  /\ v.total = v.totalTaxableAmount + v.totalCgst + v.totalSgst + v.totalIgst
                /\ v.totalTaxableAmount = SumOver(v.items, "taxableAmount")
                /\ v.totalCgst = SumOver(v.items, "cgstAmount")
                /\ v.totalSgst = SumOver(v.items, "sgstAmount")
                /\ v.totalIgst = SumOver(v.items, "igstAmount")
                /\ v.items = <<>> => v.total = 0 /\ v.totalTaxableAmount = 0

\* a voucher of two taxed lines
C7_Witness ==
    /\ saveCompleted
    /\ Len(onCompleteArg[1].items) = 2
    /\ \A k \in 1..2 : onCompleteArg[1].items[k].totalAmount > onCompleteArg[1].items[k].taxableAmount
    /\ onCompleteArg[1].total > 0

\* the determination as the claim words it
claimedInterState(sellerName) ==
    \E i \in 1..Len(ledgers) :
        /\ toLowerCase(ledgers[i].name) = toLowerCase(sellerName)
        /\ \A j \in 1..(i - 1) : toLowerCase(ledgers[j].name) # toLowerCase(sellerName)
        /\ ledgers[i].state # ""
        /\ companyDetails.state # ""
        /\ toLowerCase(ledgers[i].state) # toLowerCase(companyDetails.state)

\* C8: for the seller of every reviewed invoice, the save path and the
\* recalculation path both find the transaction inter-state exactly when the
\* party ledger exists with a non-empty state, the company state is non-empty
\* and the two differ case-insensitively; the saved voucher carries that answer.
C8_InterState ==
    /\ \A i \in 1..Len(files) :
          LET data == files[i].extractedData
          IN  /\ saveIsInterState(data) = claimedInterState(data.sellerName)
              /\ recalcIsInterState(data.sellerName) = claimedInterState(data.sellerName)
    /\ saveCompleted =>
          \A i \in 1..Len(onCompleteArg) :
              onCompleteArg[i].isInterState = claimedInterState(sourceOf(i).sellerName)

\* a voucher saved for a seller whose ledger state differs from the company's
\* only in letter case: not inter-state
C8_Witness ==
    /\ saveCompleted
    /\ onCompleteArg[1].party = "ACME"
    /\ companyDetails.state = "KA"
    /\ ~onCompleteArg[1].isInterState

\* an extracted record with other values in its four total fields
withTotals(data, t) ==
    [data EXCEPT !.subtotal = t.subtotal, !.cgstAmount = t.cgstAmount,
                 !.sgstAmount = t.sgstAmount, !.totalAmount = t.totalAmount]

OtherTotals ==
    ServiceTotals \cup {[subtotal |-> 7 * Unit, cgstAmount |-> 3 * Unit, sgstAmount |-> 0,
                         totalAmount |-> Unit]}

RECURSIVE lineItemsTaxable(_)
lineItemsTaxable(lineItems) ==
    IF lineItems = <<>> THEN 0
    ELSE Head(lineItems).quantity * Head(lineItems).rate + lineItemsTaxable(Tail(lineItems))

\* C16: the voucher made from a reviewed record is the voucher made from the
\* record with any other subtotal, cgstAmount, sgstAmount and totalAmount; so
\* is every voucher handed to onComplete, whose taxable total is the sum of
\* quantity x rate over the record's line items and whose tax totals and total
\* are the sums over its own items.
C16_TotalsIgnored ==
    /\ \A i \in 1..Len(successFiles) : \A t \in OtherTotals :
          saveVoucher([successFiles[i] EXCEPT !.extractedData = withTotals(@, t)])
             = saveVoucher(successFiles[i])
    /\ saveCompleted =>
          \A i \in 1..Len(onCompleteArg) :
              LET v == onCompleteArg[i]
              IN  /\ \A t \in OtherTotals :
                        v = saveVoucher([successFiles[i] EXCEPT !.extractedData = withTotals(@, t)])
                  /\ v.totalTaxableAmount = lineItemsTaxable(sourceOf(i).lineItems)
                  /\ v.totalCgst = SumOver(v.items, "cgstAmount")
                  /\ v.totalSgst = SumOver(v.items, "sgstAmount")
                  /\ v.totalIgst = SumOver(v.items, "igstAmount")
                  /\ v.total = SumOver(v.items, "totalAmount")

\* a voucher saved from a record whose own totals are not those of its lines
C16_Witness ==
    /\ saveCompleted
    /\ Len(onCompleteArg[1].items) > 0
    /\ sourceOf(1).subtotal # onCompleteArg[1].totalTaxableAmount
    /\ sourceOf(1).cgstAmount # onCompleteArg[1].totalCgst
    /\ sourceOf(1).totalAmount # onCompleteArg[1].total

\* the description matches no stock item
unmatched(description) ==
    \A i \in 1..Len(stockItems) : toLowerCase(stockItems[i].name) # toLowerCase(description)

\* the step edits a line item of the reviewed record
lineItemEdited ==
    /\ Len(files) = 1 /\ Len(files') = 1
    /\ files'[1].extractedData.lineItems # files[1].extractedData.lineItems

\* C21: the record a line-item edit leaves has, as cgstAmount and sgstAmount,
\* the sums over its lines that match a stock item alone (0 when none does),
\* and as subtotal their sum plus quantity x rate of each line that matches no
\* stock item; a save taxes each such line at 18 percent of its quantity x rate.
C21_RecalcFallbackZero ==
    [][/\ lineItemEdited =>
             LET data    == files'[1].extractedData
                 known   == SelectSeq(data.lineItems, LAMBDA li : ~unmatched(li.itemDescription))
                 unknown == SelectSeq(data.lineItems, LAMBDA li : unmatched(li.itemDescription))
             IN  /\ recalcFold(known, recalcIsInterState(data.sellerName),
                               [subtotal |-> 0, cgstAmount |-> 0, sgstAmount |-> 0])
                       = [subtotal   |-> data.subtotal - lineItemsTaxable(unknown),
                          cgstAmount |-> data.cgstAmount,
                          sgstAmount |-> data.sgstAmount]
                 /\ unknown = data.lineItems => data.cgstAmount = 0 /\ data.sgstAmount = 0
       /\ saveOutcome' = "completed" =>
             \A i \in 1..Len(onCompleteArg') : \A k \in 1..Len(onCompleteArg'[i].items) :
                 LET it == onCompleteArg'[i].items[k]
                 IN  unmatched(it.name) =>
                        /\ it.taxableAmount = it.qty * it.rate
                        /\ (it.totalAmount - it.taxableAmount) * Percent = it.taxableAmount * 18
      ]_vars

\* a record whose one line was edited to name no stock item: its subtotal is
\* the line's quantity x rate and its cgstAmount and sgstAmount are 0; saved,
\* the line carries 18 percent of tax
C21_Witness ==
    /\ saveCompleted
    /\ Len(files) = 1
    /\ LET data == files[1].extractedData
       IN  /\ Len(data.lineItems) = 1
           /\ data.lineItems[1].itemDescription = "Nut"
           /\ data.subtotal = 10 * Unit
           /\ data.cgstAmount = 0 /\ data.sgstAmount = 0
           /\ data.totalAmount = 12 * Unit
    /\ onCompleteArg[1].items[1].taxableAmount = 10 * Unit
    /\ onCompleteArg[1].items[1].totalAmount - onCompleteArg[1].items[1].taxableAmount
          = (18 * Unit) \div 10

\* C24: the record a line-item edit leaves has, as totalAmount, its own
\* subtotal + cgstAmount + sgstAmount, and as subtotal the sum of quantity x
\* rate over its line items.
C24_RecalcConsistent ==
    [][lineItemEdited =>
          LET data == files'[1].extractedData
          IN  /\ data.subtotal = lineItemsTaxable(data.lineItems)
              /\ data.totalAmount = data.subtotal + data.cgstAmount + data.sgstAmount]_vars

---------------------------------------------------------------------------
(* The reports' claims, checked under SpecReports *)

\* C2: no report computation raises, whatever the vouchers and the master data;
\* a report structure is always returned.
C2_ReportsNeverThrow == trialBalanceData.status # "threw"

debitSum == SumOver(trialBalanceData.result, "debit")
creditSum == SumOver(trialBalanceData.result, "credit")

RECURSIVE journalNet(_)
journalNet(entries) ==
    IF entries = <<>> THEN 0
    ELSE (IF Head(entries).ledger # "" THEN Head(entries).debit - Head(entries).credit ELSE 0)
         + journalNet(Tail(entries))

\* the ledger names a voucher refers to
namesOf(v) ==
    CASE v.type \in {"Purchase", "Sales"}  -> {v.party}
      [] v.type \in {"Payment", "Receipt"} -> {v.party, v.account}
      [] v.type = "Contra"                 -> {v.fromAccount, v.toAccount}
      [] v.type = "Journal"                -> {v.entries[k].ledger : k \in 1..Len(v.entries)}

\* a voucher whose own debits and credits agree: a trade voucher's total is its
\* taxable amount plus the tax of its kind, a journal's named entries balance
selfBalanced(v) ==
    /\ v.type \in {"Purchase", "Sales"} =>
          v.total = v.totalTaxableAmount
                    + (IF v.isInterState THEN v.totalIgst ELSE v.totalCgst + v.totalSgst)
    /\ v.type = "Journal" => journalNet(v.entries) = 0
    /\ namesOf(v) \cap ObjectPrototypeNames = {}

claimedB2b(party) ==
    \E i \in 1..Len(ledgers) :
        /\ ledgers[i].name = party
        /\ ledgers[i].registrationType = "Registered"
        /\ ledgers[i].gstin # ""

timesIn(seq, v) == Cardinality({k \in 1..Len(seq) : seq[k].id = v.id})

\* C9: b2b and b2c partition the Sales vouchers: each Sales voucher is in
\* exactly one of them, |b2b| + |b2c| is the number of Sales vouchers, a Sales
\* voucher is in b2b exactly when its party's ledger exists, is Registered and
\* has a non-empty gstin, and no other voucher is in either.
C9_Partition ==
    gstr1Data.status = "ok" =>
        /\ Len(gstr1Data.b2b) + Len(gstr1Data.b2c)
              = Cardinality({i \in 1..Len(vouchers) : vouchers[i].type = "Sales"})
        /\ \A i \in 1..Len(vouchers) :
              LET v  == vouchers[i]
                  nb == timesIn(gstr1Data.b2b, v)
                  nc == timesIn(gstr1Data.b2c, v)
              IN  IF v.type = "Sales"
                  THEN nb + nc = 1 /\ (nb = 1 <=> claimedB2b(v.party))
                  ELSE nb + nc = 0

\* a registered buyer with a gstin beside a registered buyer without one
C9_Witness ==
    /\ gstr1Data.status = "ok"
    /\ \E k \in 1..Len(gstr1Data.b2b) : gstr1Data.b2b[k].party = "Acme"
    /\ \E k \in 1..Len(gstr1Data.b2c) : gstr1Data.b2c[k].party = "Depot"

RECURSIVE qtyOfLines(_, _)
qtyOfLines(items, name) ==
    IF items = <<>> THEN 0
    ELSE (IF Head(items).name = name THEN Head(items).qty ELSE 0) + qtyOfLines(Tail(items), name)

RECURSIVE qtyOfVouchers(_, _, _)
qtyOfVouchers(vs, type, name) ==
    IF vs = <<>> THEN 0
    ELSE (IF Head(vs).type = type THEN qtyOfLines(Head(vs).items, name) ELSE 0)
         + qtyOfVouchers(Tail(vs), type, name)

\* C10: the stock summary has one row for every stock item; its inward is the
\* quantity of the Purchase lines of exactly that name, its outward that of the
\* Sales lines, its closing inward - outward, negative or not.
C10_StockSummary ==
    stockSummaryData.status = "ok" =>
        \A i \in 1..Len(stockItems) :
            LET name == stockItems[i].name
                hits == {k \in 1..Len(stockSummaryData.rows) : stockSummaryData.rows[k].name = name}
            IN  /\ Cardinality(hits) = 1
                /\ \A k \in hits :
                      LET row == stockSummaryData.rows[k]
                      IN  /\ row.inward = qtyOfVouchers(vouchers, "Purchase", name)
                          /\ row.outward = qtyOfVouchers(vouchers, "Sales", name)
                          /\ row.closing = row.inward - row.outward

\* more of an item sold than purchased, beside an item that never moved
C10_Witness ==
    /\ stockSummaryData.status = "ok"
    /\ \E k \in 1..Len(stockSummaryData.rows) :
          /\ stockSummaryData.rows[k].inward > 0
          /\ stockSummaryData.rows[k].closing < 0
    /\ \E k \in 1..Len(stockSummaryData.rows) :
          stockSummaryData.rows[k] = [name |-> "Bolt", inward |-> 0, outward |-> 0, closing |-> 0]

\* the debit and credit sums of every ledger, accumulated over the master list
\* and the vouchers
accumulated == postAll(ensureMaster(NoBalances, ledgers), vouchers)

rowsOf(ledger) ==
    {k \in 1..Len(trialBalanceData.result) : trialBalanceData.result[k].ledger = ledger}

\* C17: a ledger with accumulated debit D and credit C has the one row
\* (ledger, D - C, 0) when D > C, the one row (ledger, 0, C - D) when C > D and
\* no row when D = C; every row is of a ledger that was accumulated, and has
\* one of debit and credit > 0 and the other 0.
C17_Netting ==
    trialBalanceData.status = "ok" =>
        LET rows == trialBalanceData.result
        IN  /\ \A n \in DOMAIN accumulated.bal :
                  LET D == accumulated.bal[n].debit
                      C == accumulated.bal[n].credit
                  IN  /\ D > C => /\ Cardinality(rowsOf(n)) = 1
                                  /\ \A k \in rowsOf(n) :
                                        rows[k] = [ledger |-> n, debit |-> D - C, credit |-> 0]
                      /\ C > D => /\ Cardinality(rowsOf(n)) = 1
                                  /\ \A k \in rowsOf(n) :
                                        rows[k] = [ledger |-> n, debit |-> 0, credit |-> C - D]
                      /\ D = C => rowsOf(n) = {}
            /\ \A k \in 1..Len(rows) :
                  /\ rows[k].ledger \in DOMAIN accumulated.bal
                  /\ \/ rows[k].debit > 0 /\ rows[k].credit = 0
                     \/ rows[k].debit = 0 /\ rows[k].credit > 0

\* a ledger debited and credited more that nets to a credit row, a ledger
\* debited and credited alike and a ledger never posted to, both without a row
C17_Witness ==
    /\ trialBalanceData.status = "ok"
    /\ \E n \in DOMAIN accumulated.bal :
          /\ accumulated.bal[n].debit > 0
          /\ accumulated.bal[n].credit > accumulated.bal[n].debit
          /\ rowsOf(n) # {}
    /\ \E n \in DOMAIN accumulated.bal :
          accumulated.bal[n].debit = 0 /\ accumulated.bal[n].credit = 0 /\ rowsOf(n) = {}

\* the balances before and after the k-th voucher is posted
balancesBefore(k) == postAll(ensureMaster(NoBalances, ledgers), SubSeq(vouchers, 1, k - 1))
balancesAfter(k)  == postVoucher(balancesBefore(k), vouchers[k])

\* the debit or credit sum of a ledger, 0 for a ledger that has no entry
sumOf(b, n, side) == IF n \in DOMAIN b.bal THEN b.bal[n][side] ELSE 0

\* the postings the claim names for a Purchase or Sales voucher
claimedPostings(v) ==
    LET partySide == IF v.type = "Purchase" THEN "credit" ELSE "debit"
        tradeSide == IF v.type = "Purchase" THEN "debit" ELSE "credit"
    IN  << [ledger |-> v.party, side |-> partySide, amount |-> v.total],
           [ledger |-> IF v.type = "Purchase" THEN "Purchases" ELSE "Sales",
            side |-> tradeSide, amount |-> v.totalTaxableAmount] >>
        \o (IF v.isInterState
            THEN << [ledger |-> "IGST", side |-> tradeSide, amount |-> v.totalIgst] >>
            ELSE << [ledger |-> "CGST", side |-> tradeSide, amount |-> v.totalCgst],
                    [ledger |-> "SGST", side |-> tradeSide, amount |-> v.totalSgst] >>)

RECURSIVE claimedDelta(_, _, _)
claimedDelta(postings, n, side) ==
    IF postings = <<>> THEN 0
    ELSE (IF Head(postings).ledger = n /\ Head(postings).side = side
          THEN Head(postings).amount ELSE 0)
         + claimedDelta(Tail(postings), n, side)

\* C18: when the trial balance is computed, every Purchase and every Sales
\* voucher that is reached is posted, and changes the debit and credit sums of
\* the ledgers by exactly the postings named: the party by total, 'Purchases' or
\* 'Sales' by totalTaxableAmount, 'IGST' by totalIgst when inter-state, 'CGST'
\* and 'SGST' by totalCgst and totalSgst when not, and nothing else.
C18_TradePostings ==
    trialBalanceData.status # "null" =>
        \A k \in 1..Len(vouchers) :
            (vouchers[k].type \in {"Purchase", "Sales"} /\ ~balancesBefore(k).threw) =>
                LET v == vouchers[k]
                    names == DOMAIN balancesAfter(k).bal
                                \cup {claimedPostings(v)[j].ledger : j \in 1..Len(claimedPostings(v))}
                IN  /\ ~balancesAfter(k).threw
                    /\ \A n \in names : \A side \in {"debit", "credit"} :
                          sumOf(balancesAfter(k), n, side) - sumOf(balancesBefore(k), n, side)
                             = claimedDelta(claimedPostings(v), n, side)

\* the ledger names a voucher posts to: the ones it carries and the ones its
\* type implies
referencedBy(v) ==
    namesOf(v) \cup (CASE v.type = "Purchase" -> {"Purchases", "IGST", "CGST", "SGST"}
                       [] v.type = "Sales"    -> {"Sales", "IGST", "CGST", "SGST"}
                       [] OTHER               -> {})

masterNames == {ledgers[i].name : i \in 1..Len(ledgers)}

\* the ledger names the vouchers refer to that the master list does not hold
driftedNames == UNION {referencedBy(vouchers[k]) : k \in 1..Len(vouchers)} \ masterNames

\* the master list with a ledger of that name put in after its first p ledgers
masterWith(name, p) ==
    SubSeq(ledgers, 1, p)
    \o << [name |-> name, state |-> "", registrationType |-> "Unregistered", gstin |-> ""] >>
    \o SubSeq(ledgers, p + 1, Len(ledgers))

rowSet(report) == {report.result[k] : k \in 1..Len(report.result)}

\* C19: for every ledger name the vouchers refer to that is not in the master
\* list, the trial balance computed from the master list with a ledger of that
\* name put in (at any place) is the one computed without it: the same debit
\* and credit sum for every ledger, the same rows (as many, and the same ones;
\* their order is the order in which the ledgers were first met) and the same
\* totals; and one is returned exactly when the other is.
C19_SelfHealing ==
    trialBalanceData.status # "null" =>
        \A n \in driftedNames : \A p \in 0..Len(ledgers) :
            LET withLedger == trialBalanceMemo("TrialBalance", vouchers, masterWith(n, p))
                sums       == postAll(ensureMaster(NoBalances, masterWith(n, p)), vouchers)
            IN  /\ withLedger.status = trialBalanceData.status
                /\ trialBalanceData.status = "ok" =>
                      /\ sums.bal = accumulated.bal
                      /\ rowSet(withLedger) = rowSet(trialBalanceData)
                      /\ Len(withLedger.result) = Len(trialBalanceData.result)
                      /\ withLedger.totals = trialBalanceData.totals

\* a purchase from a party the master list does not hold, with its row in the
\* trial balance
C19_Witness ==
    /\ trialBalanceData.status = "ok"
    /\ "Ghost" \in driftedNames
    /\ \E k \in 1..Len(vouchers) : vouchers[k].type = "Purchase" /\ vouchers[k].party = "Ghost"
    /\ \E k \in rowsOf("Ghost") : trialBalanceData.result[k].credit = 23

RECURSIVE valueOfLines(_, _)
valueOfLines(items, name) ==
    IF items = <<>> THEN 0
    ELSE (IF Head(items).name = name THEN Head(items).taxableAmount ELSE 0)
         + valueOfLines(Tail(items), name)

\* the sum of taxableAmount over the Purchase lines of a name
RECURSIVE purchaseValueOf(_, _)
purchaseValueOf(vs, name) ==
    IF vs = <<>> THEN 0
    ELSE (IF Head(vs).type = "Purchase" THEN valueOfLines(Head(vs).items, name) ELSE 0)
         + purchaseValueOf(Tail(vs), name)

\* the quotient q is the number n / d, d # 0
IsRatio(q, n, d) == q.den # 0 /\ q.num * d = n * q.den

IsZero(q) == q.den # 0 /\ q.num = 0

\* C20: the stock valuation has one row for every stock item, with closingQty
\* = purchased quantity - sold quantity, avgCost = purchaseValue / purchaseQty
\* when purchaseQty > 0 and 0 otherwise, and value = closingQty * avgCost; no
\* quotient has the divisor 0, and an item sold but never purchased has avgCost
\* 0 and value 0.
C20_StockValuation ==
    stockValuationData.status = "ok" =>
        \A i \in 1..Len(stockItems) :
            LET name == stockItems[i].name
                hits == {k \in 1..Len(stockValuationData.rows) :
                            stockValuationData.rows[k].name = name}
                purchaseQty   == qtyOfVouchers(vouchers, "Purchase", name)
                salesQty      == qtyOfVouchers(vouchers, "Sales", name)
                purchaseValue == purchaseValueOf(vouchers, name)
            IN  /\ Cardinality(hits) = 1
                /\ \A k \in hits :
                      LET row == stockValuationData.rows[k]
                      IN  /\ row.closingQty = purchaseQty - salesQty
                          /\ IF purchaseQty > 0
                             THEN IsRatio(row.avgCost, purchaseValue, purchaseQty)
                             ELSE IsZero(row.avgCost)
                          /\ row.value.den # 0
                          /\ row.value.num * row.avgCost.den
                                = row.closingQty * row.avgCost.num * row.value.den
                          /\ (purchaseQty = 0 /\ salesQty > 0) =>
                                IsZero(row.avgCost) /\ IsZero(row.value)

\* an item purchased at two rates, valued at their weighted average, beside an
\* item sold but never purchased
C20_Witness ==
    /\ stockValuationData.status = "ok"
    /\ \E k \in 1..Len(stockValuationData.rows) :
          LET row == stockValuationData.rows[k]
          IN  /\ row.name = "Widget"
              /\ row.closingQty = 3
              /\ IsRatio(row.avgCost, 18, 3)
              /\ IsRatio(row.value, 18, 1)
    /\ purchaseValueOf(vouchers, "Widget") = 18
    /\ \E k \in 1..Len(stockValuationData.rows) :
          LET row == stockValuationData.rows[k]
          IN  /\ qtyOfVouchers(vouchers, "Purchase", row.name) = 0
              /\ row.closingQty < 0
              /\ IsZero(row.avgCost) /\ IsZero(row.value)

\* C22: every Sales voucher whose party is, letter case apart, the name of a
\* Registered ledger with a non-empty gstin is in b2b (and not in b2c).
C22_CaseInsensitiveB2b ==
    gstr1Data.status = "ok" =>
        \A i \in 1..Len(vouchers) :
            LET v == vouchers[i]
            IN  (/\ v.type = "Sales"
                 /\ \E l \in 1..Len(ledgers) :
                       /\ toLowerCase(ledgers[l].name) = toLowerCase(v.party)
                       /\ ledgers[l].registrationType = "Registered"
                       /\ ledgers[l].gstin # "")
                => timesIn(gstr1Data.b2b, v) = 1 /\ timesIn(gstr1Data.b2c, v) = 0

---------------------------------------------------------------------------
(* The batch's claims, checked under Spec *)

\* C23: a call of handleSave hands onComplete one voucher for each file of
\* status 'success', in the order of the list, and none for any other file;
\* each is a Purchase with the id '', the record's sellerName as party and its
\* invoiceNumber as invoiceNo.
C23_OneVoucherPerSuccess ==
    saveOutcome # "none" =>
        /\ saveCompleted
        /\ Len(onCompleteArg) = Cardinality({k \in 1..Len(files) : files[k].status = "success"})
        /\ \A i \in 1..Len(onCompleteArg) :
              /\ onCompleteArg[i].type = "Purchase"
              /\ onCompleteArg[i].id = ""
              /\ onCompleteArg[i].party = sourceOf(i).sellerName
              /\ onCompleteArg[i].invoiceNo = sourceOf(i).invoiceNumber
              /\ onCompleteArg[i].narration = <<"Auto-imported from ", successFiles[i].name>>

\* C25: no two entries of the file list have the same id.
C25_UniqueIds ==
    \A i, j \in 1..Len(files) : i # j => files[i].id # files[j].id

\* C11: one call of extractInvoiceDataWithRetry sends at most 3 requests; it
\* returns at its first answered request, which follows as many failed ones as
\* timers were set, and sends none after it; the timer after the first failure
\* is of 1000 ms and the one after the second of 2000 ms; after the third
\* failure it throws without setting a timer.
C11_BoundedBackoff ==
    /\ ext.calls <= 3
    /\ Len(ext.waits) <= 2
    /\ \A k \in 1..Len(ext.waits) : ext.waits[k] = (IF k = 1 THEN 1000 ELSE 2000)
    /\ ext.pc = "calling"  => ext.calls = ext.attempt + 1 /\ Len(ext.waits) = ext.attempt
    /\ ext.pc = "waiting"  => ext.calls = ext.attempt /\ Len(ext.waits) = ext.attempt
    /\ ext.pc = "returned" => /\ ext.settled.kind = "data"
                              /\ ext.calls = ext.attempt + 1
                              /\ Len(ext.waits) = ext.attempt
    /\ (ext.pc = "threw" /\ ext.calls > 0) => /\ ext.settled.kind = "Error"
                                              /\ ext.calls = 3 /\ ext.attempt = 3
                                              /\ ext.waits = <<1000, 2000>>

\* a call that returned at its third request, after both timers
C11_Witness ==
    /\ ext.pc = "returned"
    /\ ext.calls = 3
    /\ ext.waits = <<1000, 2000>>

\* the id of the file whose extraction the run awaits
awaitedId == run.snapshot[run.i].id

\* C12: when the third attempt for a file has failed, the step that takes the
\* failure up leaves the file in status 'error' with, as its error text, the
\* message of the error the last attempt raised.
C12_LastErrorStored ==
    [][(ext.pc = "threw" /\ ext.attempt = 3) =>
          \A k \in 1..Len(files') :
              files'[k].id = awaitedId =>
                  files'[k].status = "error" /\ files'[k].error = ext.lastError]_vars

\* C13: when the extraction of a file has failed (after its retries or before
\* its first attempt), the step that takes the failure up marks no more than
\* that one entry of the list 'error', and goes on to the extraction of the
\* next file of the batch that was pending, if there is one.
C13_FailureIsLocal ==
    [][ext.pc = "threw" =>
          LET later == {k \in (run.i + 1)..Len(run.snapshot) : run.snapshot[k].status = "pending"}
          IN  /\ Cardinality({k \in 1..Len(files) :
                                 files[k].status # "error" /\ files'[k].status = "error"}) <= 1
              /\ later # {} => /\ run'.pc = "awaiting" /\ run'.i \in later
                               /\ \A j \in later : run'.i <= j
                               /\ ext'.pc = "reading"]_vars

statusStep(s, t) ==
    \/ s = t
    \/ s = "pending" /\ t = "processing"
    \/ s = "processing" /\ t \in {"success", "error"}

\* C14: in every step that keeps the entries of the list in place, the status
\* of each entry stays as it is or moves pending -> processing, processing ->
\* success or processing -> error.
C14_StatusMonotonic ==
    [][(Len(files') = Len(files) /\ \A k \in 1..Len(files) : files'[k].id = files[k].id) =>
          \A k \in 1..Len(files) : statusStep(files[k].status, files'[k].status)]_vars

\* C15: at most one entry of the list is 'processing'; a call of the service is
\* under way only for the file a run awaits; while a run is under way
\* isProcessing is set, so that the Start button is not shown and no second run
\* can be started.
C15_Sequential ==
    /\ Cardinality({k \in 1..Len(files) : files[k].status = "processing"}) <= 1
    /\ ext.pc # "idle" => run.pc = "awaiting" /\ ext.name = run.snapshot[run.i].name
    /\ run.pc = "awaiting" => isProcessing /\ ext.pc # "idle"
    /\ startButtonShown => run.pc = "idle"

FileIds == {fileId(file) : file \in UploadFiles}

\* the state startProcessing leaves: the list is the run's array with the
\* first pending file set 'processing', whose extraction has just begun
runStarted ==
    /\ run.pc = "awaiting"
    /\ ext.pc = "reading"
    /\ \A k \in 1..(run.i - 1) : run.snapshot[k].status # "pending"
    /\ [k \in 1..Len(files) |-> loopView(files[k])]
          = [k \in 1..Len(run.snapshot) |->
                IF run.snapshot[k].id = awaitedId
                THEN [run.snapshot[k] EXCEPT !.status = "processing"]
                ELSE run.snapshot[k]]

pendingAtStart(id) ==
    \E k \in 1..Len(run.snapshot) : run.snapshot[k].id = id /\ run.snapshot[k].status = "pending"

removed(id) == \A k \in 1..Len(files) : files[k].id # id

finishedWith(id) ==
    /\ ~isProcessing
    /\ run.pc = "idle"
    /\ \A k \in 1..Len(files) : files[k].id = id => files[k].status \in {"success", "error"}

\* C26: when the FileReader settles, every request is answered or fails and
\* every timer fires, a run of startProcessing that is under way comes to its
\* end, where isProcessing is false and no file is 'processing'; and for every
\* file that was pending when a run started, a state follows in which the file
\* has been removed from the list or the run is over and the file is 'success'
\* or 'error'.
C26_BatchTerminates ==
    /\ isProcessing ~> ~isProcessing
    /\ [](~isProcessing => \A k \in 1..Len(files) : files[k].status # "processing")
    /\ \A id \in FileIds :
          (runStarted /\ pendingAtStart(id)) ~> (removed(id) \/ finishedWith(id))

\* a run of two files is over: the first extracted, the second failed after
\* its three attempts
C26_Witness ==
    /\ ~isProcessing
    /\ run.pc = "idle"
    /\ saveOutcome = "none"
    /\ Len(files) = 2
    /\ files[1].id = "a.pdf-1" /\ files[1].status = "success"
    /\ files[2].id = "b.pdf-1" /\ files[2].status = "error"
    /\ files[2].error = RetriesExhaustedMessage

\* C27: in every state in which handleSave can be triggered, no batch runs
\* (isProcessing is false, no run and no extraction is under way), no file is
\* 'pending' or 'processing', and at least one file is 'success' and has its
\* extracted data.
C27_SaveWhenSettled ==
    (modalOpen /\ saveButtonEnabled) =>
        /\ ~isProcessing
        /\ run.pc = "idle" /\ ext.pc = "idle"
        /\ \A k \in 1..Len(files) : files[k].status \in {"success", "error"}
        /\ \E k \in 1..Len(files) :
              files[k].status = "success" /\ "extractedData" \in DOMAIN files[k]

\* Save can be triggered for a list of a failed and an extracted file
C27_Witness ==
    /\ modalOpen /\ saveButtonEnabled
    /\ Len(files) = 2
    /\ files[1].status = "error"
    /\ files[2].status = "success"

=============================================================================
